---- MODULE Spec2Model ----
(***************************************************************************)
(* Model of src/models/moonshot_model.py: the MoonshotModel adapter.       *)
(*                                                                         *)
(* Python values are represented as follows.                               *)
(*   - An optional value is a sequence: None is <<>>, a value v is <<v>>.  *)
(*   - A str is a TLA+ string, a dict is a function on its keys, the empty *)
(*     dict is <<>>.                                                       *)
(*   - An exception is a record [type, msg]; str(e) is e.msg.              *)
(*   - A float temperature is counted in tenths (7 stands for 0.7).        *)
(***************************************************************************)
EXTENDS Integers, Sequences, FiniteSets, TLC

VARIABLES env, self, instance, wire, call

vars == <<env, self, instance, wire, call>>

(***************************************************************************)
(* Bounds and input sets                                                   *)
(***************************************************************************)
MaxRequests == 2

None == <<>>

Some(v) == <<v>>

ApiKeys == {None, Some(""), Some("sk-moon")}

EnvKeys == {None, Some("sk-env")}

DefaultModelName == "kimi-k2-thinking"

ModelNames == {Some(DefaultModelName), Some("moonshot-v1-8k"),
               Some("unknown-model-xyz"), Some("")}

ModelArgs == ModelNames \cup {None, Some("moonshot-v1-128k")}

Prompts == {"be brief"}

Contents == {"gm"}

DefaultTemperature == 7

Temperatures == {0, DefaultTemperature}

MaxTokensArgs == {None, Some(256)}

EmptyDict == <<>>

ExtraOptions == {EmptyDict, [top_p |-> 1]}

ProbeErrors == {[type |-> "APIConnectionError", msg |-> "Connection error."],
                [type |-> "AuthenticationError", msg |-> "Invalid Authentication"]}

ProbeOutcomes == {None} \cup {Some(e) : e \in ProbeErrors}

ChatErrors == {[type |-> "APITimeoutError", msg |-> "Request timed out."]}

Choices == {<<>>,
            <<[message |-> [content |-> "hello"]], [message |-> [content |-> "bye"]]>>}

Usages == {None, Some([total_tokens |-> 42])}

ProviderModels == {"kimi-k2-thinking", "kimi-k2-0905-preview"}

Completions == [model : ProviderModels, choices : Choices, usage : Usages]

ChatOutcomes == {[exc |-> Some(e), completion |-> None] : e \in ChatErrors}
                \cup {[exc |-> None, completion |-> Some(c)] : c \in Completions}

(***************************************************************************)
(* Python helpers                                                          *)
(***************************************************************************)
Truthy(o) == o # None /\ o[1] # ""

PyOr(a, b) == IF Truthy(a) THEN a ELSE b

DictGet(d, k, default) == IF k # None /\ k[1] \in DOMAIN d THEN d[k[1]] ELSE default

AVAILABLE_MODELS == <<"moonshot-v1-8k", "moonshot-v1-32k", "moonshot-v1-128k",
                      "kimi-k2-thinking", "kimi-k2-thinking-turbo",
                      "kimi-k2-0905-preview", "kimi-k2-turbo-preview">>

base_url == "https://api.moonshot.ai/v1"

model_type == "moonshot"

NoObject == [api_key |-> None, model_name |-> None, base_url |-> None, client |-> None]

NoCall == [op |-> "none", args |-> EmptyDict, outcome |-> None,
           sent |-> <<>>, returned |-> None, raised |-> None]

(***************************************************************************)
(* BaseModel.__init__: resolves the credential, argument first, then the   *)
(* process environment.                                                    *)
(***************************************************************************)
BaseModel_init(obj, api_key, environ) == [obj EXCEPT !.api_key = PyOr(api_key, environ)]

(***************************************************************************)
(* initialize_client: result is the object, the requests sent and the      *)
(* exception raised (None when it returns).                                *)
(***************************************************************************)
ListRequest(probe) == [endpoint |-> "models.list", args |-> EmptyDict, error |-> probe]

ConfigurationError == [type |-> "ValueError", msg |-> "MOONSHOT_API_KEY not configured"]

OpenAI(api_key, url) == [api_key |-> api_key, base_url |-> url]

\* Mutant: the credential is not tested before the provider is contacted.
initialize_client_NoKeyCheck(obj, probe) ==
    [obj |-> [obj EXCEPT !.client = Some(OpenAI(obj.api_key, obj.base_url))],
     sent |-> <<ListRequest(probe)>>, raised |-> probe]

\* Mutant: a failing probe is reported on the console only and not re-raised.
initialize_client_Swallow(obj, probe) ==
    IF ~Truthy(obj.api_key)
    THEN [obj |-> obj, sent |-> <<>>, raised |-> Some(ConfigurationError)]
    ELSE [obj |-> [obj EXCEPT !.client = Some(OpenAI(obj.api_key, obj.base_url))],
          sent |-> <<ListRequest(probe)>>, raised |-> None]

\* Mutant: the connection handle is created but the probe is left to the first call.
initialize_client_Lazy(obj, probe) ==
    IF ~Truthy(obj.api_key)
    THEN [obj |-> obj, sent |-> <<>>, raised |-> Some(ConfigurationError)]
    ELSE [obj |-> [obj EXCEPT !.client = Some(OpenAI(obj.api_key, obj.base_url))],
          sent |-> <<>>, raised |-> None]

initialize_client(obj, probe) ==
    IF ~Truthy(obj.api_key)
    THEN [obj |-> obj, sent |-> <<>>, raised |-> Some(ConfigurationError)]
    ELSE [obj |-> [obj EXCEPT !.client = Some(OpenAI(obj.api_key, obj.base_url))],
          sent |-> <<ListRequest(probe)>>, raised |-> probe]

MoonshotModel_init(api_key, model_name, environ, probe) ==
    LET o1 == [NoObject EXCEPT !.base_url = Some(base_url), !.model_name = model_name]
        o2 == BaseModel_init(o1, api_key, environ)
    IN  initialize_client(o2, probe)

(***************************************************************************)
(* is_available: result is the value returned, the requests sent and the   *)
(* exception raised.                                                       *)
(***************************************************************************)
\* Mutant: the probe's exception propagates to the caller.
is_available_Raises(obj, probe) ==
    [returned |-> IF probe = None THEN Some(TRUE) ELSE None,
     sent |-> <<ListRequest(probe)>>, raised |-> probe]

is_available(obj, probe) ==
    [returned |-> Some(probe = None), sent |-> <<ListRequest(probe)>>, raised |-> None]

(***************************************************************************)
(* generate_response                                                       *)
(***************************************************************************)
ChatRequest(obj, system_prompt, user_content, temperature, max_tokens, kwargs) ==
    [model |-> obj.model_name,
     messages |-> <<[role |-> "system", content |-> system_prompt],
                    [role |-> "user", content |-> user_content]>>,
     temperature |-> temperature,
     max_tokens |-> max_tokens]

WrapError(e) == [type |-> "Exception", msg |-> "Moonshot API error: " \o e.msg]

ModelResponse(content, raw_response, model_name, usage) ==
    [content |-> content, raw_response |-> raw_response,
     model_name |-> model_name, usage |-> usage]

\* Mutant: a payload without usage counters yields a Response with an empty usage map.
BuildResponse_Partial(obj, completion) ==
    IF Len(completion.choices) = 0
    THEN [returned |-> None,
          raised |-> Some(WrapError([type |-> "IndexError", msg |-> "list index out of range"]))]
    ELSE [returned |-> Some(ModelResponse(completion.choices[1].message.content,
                                          completion,
                                          obj.model_name,
                                          IF completion.usage = None THEN EmptyDict
                                          ELSE [total_tokens |-> completion.usage[1].total_tokens])),
          raised |-> None]

\* Mutant: the Response names the model the provider reports.
BuildResponse_ProviderModel(obj, completion) ==
    IF Len(completion.choices) = 0
    THEN [returned |-> None,
          raised |-> Some(WrapError([type |-> "IndexError", msg |-> "list index out of range"]))]
    ELSE IF completion.usage = None
    THEN [returned |-> None,
          raised |-> Some(WrapError([type |-> "AttributeError",
                         msg |-> "'NoneType' object has no attribute 'total_tokens'"]))]
    ELSE [returned |-> Some(ModelResponse(completion.choices[1].message.content,
                                          completion,
                                          Some(completion.model),
                                          [total_tokens |-> completion.usage[1].total_tokens])),
          raised |-> None]

BuildResponse(obj, completion) ==
    IF Len(completion.choices) = 0
    THEN [returned |-> None,
          raised |-> Some(WrapError([type |-> "IndexError", msg |-> "list index out of range"]))]
    ELSE IF completion.usage = None
    THEN [returned |-> None,
          raised |-> Some(WrapError([type |-> "AttributeError",
                         msg |-> "'NoneType' object has no attribute 'total_tokens'"]))]
    ELSE [returned |-> Some(ModelResponse(completion.choices[1].message.content,
                                          completion,
                                          obj.model_name,
                                          [total_tokens |-> completion.usage[1].total_tokens])),
          raised |-> None]

\* Mutant: a failed request is sent a second time before the error is raised.
generate_response_Retry(obj, system_prompt, user_content, temperature, max_tokens, kwargs, outcome) ==
    LET request == ChatRequest(obj, system_prompt, user_content, temperature, max_tokens, kwargs)
        sent == <<[endpoint |-> "chat.completions.create", args |-> request,
                   error |-> outcome.exc]>>
    IN  IF outcome.exc # None
        THEN [returned |-> None, sent |-> sent \o sent,
              raised |-> Some(WrapError(outcome.exc[1]))]
        ELSE LET b == BuildResponse(obj, outcome.completion[1])
             IN  [returned |-> b.returned, sent |-> sent, raised |-> b.raised]

generate_response(obj, system_prompt, user_content, temperature, max_tokens, kwargs, outcome) ==
    LET request == ChatRequest(obj, system_prompt, user_content, temperature, max_tokens, kwargs)
        sent == <<[endpoint |-> "chat.completions.create", args |-> request,
                   error |-> outcome.exc]>>
    IN  IF outcome.exc # None
        THEN [returned |-> None, sent |-> sent, raised |-> Some(WrapError(outcome.exc[1]))]
        ELSE LET b == BuildResponse(obj, outcome.completion[1])
             IN  [returned |-> b.returned, sent |-> sent, raised |-> b.raised]

(***************************************************************************)
(* get_model_parameters                                                    *)
(***************************************************************************)
\* Mutant: the table lacks the entry of the default model.
params_NoDefault ==
    [k \in {"moonshot-v1-8k", "moonshot-v1-32k", "moonshot-v1-128k"} |->
        CASE k = "moonshot-v1-8k"   -> [context_window |-> 8000,   max_output_tokens |-> 4096]
          [] k = "moonshot-v1-32k"  -> [context_window |-> 32000,  max_output_tokens |-> 8000]
          [] k = "moonshot-v1-128k" -> [context_window |-> 128000, max_output_tokens |-> 8000]]

params ==
    [k \in {"moonshot-v1-8k", "moonshot-v1-32k", "moonshot-v1-128k", "kimi-k2-thinking"} |->
        CASE k = "moonshot-v1-8k"   -> [context_window |-> 8000,   max_output_tokens |-> 4096]
          [] k = "moonshot-v1-32k"  -> [context_window |-> 32000,  max_output_tokens |-> 8000]
          [] k = "moonshot-v1-128k" -> [context_window |-> 128000, max_output_tokens |-> 8000]
          [] k = "kimi-k2-thinking" -> [context_window |-> 256000, max_output_tokens |-> 8000]]

\* Mutant: the table is subscripted, so an identifier without an entry raises KeyError.
get_model_parameters_KeyError(obj, model_name) ==
    LET model == PyOr(model_name, obj.model_name)
    IN  IF model # None /\ model[1] \in DOMAIN params
        THEN [returned |-> Some(params[model[1]]), sent |-> <<>>, raised |-> None]
        ELSE [returned |-> None, sent |-> <<>>,
              raised |-> Some([type |-> "KeyError", msg |-> "model"])]

get_model_parameters(obj, model_name) ==
    LET model == PyOr(model_name, obj.model_name)
    IN  [returned |-> Some(DictGet(params, model, EmptyDict)), sent |-> <<>>, raised |-> None]

(***************************************************************************)
(* State machine: one adapter object, the requests it has sent to the      *)
(* provider (wire), and the last call with its result.                     *)
(***************************************************************************)
Init ==
    /\ env \in EnvKeys
    /\ self = NoObject
    /\ instance = FALSE
    /\ wire = <<>>
    /\ call = NoCall

Construct ==
    \E api_key \in ApiKeys, model_name \in ModelNames, probe \in ProbeOutcomes :
        LET r == MoonshotModel_init(api_key, model_name, env, probe)
        IN  /\ self' = r.obj
            /\ instance' = (r.raised = None)
            /\ wire' = r.sent
            /\ call' = [op |-> "Construct",
                        args |-> [api_key |-> api_key, model_name |-> model_name],
                        outcome |-> Some(probe), sent |-> r.sent,
                        returned |-> None, raised |-> r.raised]
            /\ UNCHANGED env

IsAvailable ==
    /\ instance
    /\ Len(wire) < MaxRequests
    /\ \E probe \in ProbeOutcomes :
        LET r == is_available(self, probe)
        IN  /\ wire' = wire \o r.sent
            /\ call' = [op |-> "IsAvailable", args |-> EmptyDict,
                        outcome |-> Some(probe), sent |-> r.sent,
                        returned |-> r.returned, raised |-> r.raised]
    /\ UNCHANGED <<env, self, instance>>

GenerateResponse ==
    /\ instance
    /\ Len(wire) < MaxRequests
    /\ \E system_prompt \in Prompts, user_content \in Contents, temperature \in Temperatures,
          max_tokens \in MaxTokensArgs, kwargs \in ExtraOptions, outcome \in ChatOutcomes :
        LET r == generate_response(self, system_prompt, user_content, temperature,
                                   max_tokens, kwargs, outcome)
        IN  /\ wire' = wire \o r.sent
            /\ call' = [op |-> "GenerateResponse",
                        args |-> [system_prompt |-> system_prompt, user_content |-> user_content,
                                  temperature |-> temperature, max_tokens |-> max_tokens,
                                  kwargs |-> kwargs],
                        outcome |-> Some(outcome), sent |-> r.sent,
                        returned |-> r.returned, raised |-> r.raised]
    /\ UNCHANGED <<env, self, instance>>

GetModelParameters ==
    /\ instance
    /\ \E model_name \in ModelArgs :
        LET r == get_model_parameters(self, model_name)
        IN  /\ wire' = wire \o r.sent
            /\ call' = [op |-> "GetModelParameters", args |-> [model_name |-> model_name],
                        outcome |-> None, sent |-> r.sent,
                        returned |-> r.returned, raised |-> r.raised]
    /\ UNCHANGED <<env, self, instance>>

Next == Construct \/ IsAvailable \/ GenerateResponse \/ GetModelParameters

Spec == Init /\ [][Next]_vars
(***************************************************************************)
(* Properties                                                              *)
(***************************************************************************)

\* C1: Construct with no credential (argument absent or empty, none in the
\* environment) fails with the configuration error for every model identifier,
\* and no Adapter instance results.
C1_NoCredentialFails ==
    (call.op = "Construct" /\ ~Truthy(call.args.api_key) /\ ~Truthy(env))
        => /\ call.raised = Some(ConfigurationError)
           /\ ~instance

C1_Witness ==
    /\ call.op = "Construct"
    /\ call.args.api_key = Some("")
    /\ ~Truthy(env)
    /\ call.args.model_name = Some("moonshot-v1-8k")
    /\ call.raised # None

\* C2: Construct with a credential and a failing probe fails with the probe's
\* own error (the underlying cause), which is not the configuration error, and
\* no Adapter instance is returned.
C2_ProbeFailureAbortsConstruct ==
    (call.op = "Construct" /\ Truthy(PyOr(call.args.api_key, env)) /\ call.outcome[1] # None)
        => /\ call.raised = call.outcome[1]
           /\ call.raised[1] # ConfigurationError
           /\ ~instance

C2_Witness ==
    /\ call.op = "Construct"
    /\ call.args.api_key = Some("sk-moon")
    /\ call.outcome[1] = Some([type |-> "APIConnectionError", msg |-> "Connection error."])
    /\ call.raised # None
    /\ ~instance

\* C3: when the chat-completion call fails, or the payload has no completion
\* choice or no usage counters, GenerateResponse raises the provider error
\* (wrapping the underlying message when the call itself failed) and returns
\* no Response.
C3_FailureRaisesProviderError ==
    (call.op = "GenerateResponse" /\
        (\/ call.outcome[1].exc # None
         \/ call.outcome[1].completion[1].choices = <<>>
         \/ call.outcome[1].completion[1].usage = None))
        => /\ call.returned = None
           /\ call.raised # None
           /\ call.raised[1].type = "Exception"
           /\ call.outcome[1].exc # None =>
                call.raised[1].msg = "Moonshot API error: " \o call.outcome[1].exc[1].msg

C3_Witness ==
    /\ call.op = "GenerateResponse"
    /\ call.outcome[1].exc = None
    /\ call.outcome[1].completion[1].choices # <<>>
    /\ call.outcome[1].completion[1].usage = None
    /\ call.raised # None

\* C4: IsAvailable never raises; it returns true exactly when the probe
\* succeeds and false when the probe raises.
C4_IsAvailableNeverRaises ==
    call.op = "IsAvailable"
        => /\ call.raised = None
           /\ call.returned = Some(call.outcome[1] = None)

C4_Witness ==
    /\ call.op = "IsAvailable"
    /\ call.outcome[1] # None
    /\ call.returned = Some(FALSE)

\* C5: when the provider returns a completion, the Response has the content of
\* the first choice, the configured model identifier (not the provider's) and
\* the provider's total token count.
C5_ResponseFields ==
    (call.op = "GenerateResponse" /\ call.outcome[1].exc = None
        /\ call.outcome[1].completion[1].choices # <<>>
        /\ call.outcome[1].completion[1].usage # None)
        => /\ call.raised = None
           /\ call.returned # None
           /\ call.returned[1].content = Head(call.outcome[1].completion[1].choices).message.content
           /\ call.returned[1].model_name = self.model_name
           /\ call.returned[1].usage.total_tokens =
                  call.outcome[1].completion[1].usage[1].total_tokens

C5_Witness ==
    /\ call.op = "GenerateResponse"
    /\ call.returned # None
    /\ call.returned[1].content = "hello"
    /\ call.returned[1].usage.total_tokens = 42
    /\ Some(call.outcome[1].completion[1].model) # self.model_name

TableEntry(id) ==
    IF id = Some("moonshot-v1-8k") THEN [context_window |-> 8000, max_output_tokens |-> 4096]
    ELSE IF id = Some("moonshot-v1-32k") THEN [context_window |-> 32000, max_output_tokens |-> 8000]
    ELSE IF id = Some("moonshot-v1-128k") THEN [context_window |-> 128000, max_output_tokens |-> 8000]
    ELSE IF id = Some("kimi-k2-thinking") THEN [context_window |-> 256000, max_output_tokens |-> 8000]
    ELSE EmptyDict

\* C6 (as stated): GetModelParameters returns the table entry of the given
\* identifier, or of the configured one when none is given, and an empty
\* mapping when the identifier has no entry; it never fails and sends nothing.
C6_Original ==
    call.op = "GetModelParameters"
        => /\ call.raised = None
           /\ call.sent = <<>>
           /\ call.returned = Some(TableEntry(IF call.args.model_name # None
                                              THEN call.args.model_name
                                              ELSE self.model_name))

\* C6 (amended): GetModelParameters returns the table entry of the given
\* identifier when it is a non-empty string, and of the configured identifier
\* when none or the empty string is given; an identifier without an entry
\* yields an empty mapping; it never fails and sends nothing.
C6_Amended ==
    call.op = "GetModelParameters"
        => /\ call.raised = None
           /\ call.sent = <<>>
           /\ call.returned = Some(TableEntry(IF call.args.model_name \notin {None, Some("")}
                                              THEN call.args.model_name
                                              ELSE self.model_name))
           /\ call.args.model_name = Some("moonshot-v1-8k") =>
                call.returned = Some([context_window |-> 8000, max_output_tokens |-> 4096])
           /\ call.args.model_name = Some("unknown-model-xyz") =>
                call.returned = Some(EmptyDict)

C6_Witness ==
    /\ call.op = "GetModelParameters"
    /\ call.args.model_name = Some("")
    /\ self.model_name = Some("moonshot-v1-8k")
    /\ call.returned = Some([context_window |-> 8000, max_output_tokens |-> 4096])

IsDefaultModelQuery ==
    /\ call.op = "GetModelParameters"
    /\ \/ call.args.model_name = Some(DefaultModelName)
       \/ call.args.model_name = None /\ self.model_name = Some(DefaultModelName)

\* C7 (as stated): GetModelParameters returns an empty mapping for the default
\* identifier "kimi-k2-thinking", passed explicitly or configured by default.
C7_Original ==
    IsDefaultModelQuery => call.returned = Some(EmptyDict)

\* C7 (amended): GetModelParameters returns {context_window: 256000,
\* max_output_tokens: 8000} for the default identifier "kimi-k2-thinking",
\* passed explicitly or configured by default; the default is a listed model.
C7_Amended ==
    IsDefaultModelQuery
        => call.returned = Some([context_window |-> 256000, max_output_tokens |-> 8000])

C7_Witness ==
    /\ call.op = "GetModelParameters"
    /\ call.args.model_name = None
    /\ self.model_name = Some(DefaultModelName)
    /\ call.returned # Some(EmptyDict)

\* C8: the request GenerateResponse sends carries the configured model, the
\* system and the user message in that order, the temperature, max_tokens only
\* when the caller supplied it, and every key/value of the caller's extra
\* options.
C8_RequestShape ==
    call.op = "GenerateResponse"
        => LET req == call.sent[1].args
           IN  /\ Len(call.sent) = 1
               /\ req.model = self.model_name
               /\ req.messages = <<[role |-> "system", content |-> call.args.system_prompt],
                                   [role |-> "user", content |-> call.args.user_content]>>
               /\ req.temperature = call.args.temperature
               /\ ("max_tokens" \in DOMAIN req /\ req.max_tokens # None)
                      <=> call.args.max_tokens # None
               /\ call.args.max_tokens # None => req.max_tokens = call.args.max_tokens
               /\ \A k \in DOMAIN call.args.kwargs :
                      k \in DOMAIN req /\ req[k] = call.args.kwargs[k]

\* C9: every GenerateResponse call sends exactly one chat-completion request,
\* whether it returns or raises, and no probe request.
C9_ExactlyOneRequest ==
    call.op = "GenerateResponse"
        => /\ Len(call.sent) = 1
           /\ call.sent[1].endpoint = "chat.completions.create"
           /\ Len(wire) >= 1
           /\ wire[Len(wire)] = call.sent[1]

C9_Witness ==
    /\ call.op = "GenerateResponse"
    /\ call.raised # None
    /\ call.outcome[1].exc # None
    /\ Len(wire) = 2

\* C10: Construct tests the credential before it contacts the provider (without
\* a credential there is no connection handle and nothing is sent); with a
\* credential it sends the probe, so a successful probe precedes every
\* chat-completion request of the Adapter.
C10_EagerProbe ==
    /\ (call.op = "Construct" /\ ~Truthy(PyOr(call.args.api_key, env)))
           => (self.client = None /\ call.sent = <<>> /\ wire = <<>>)
    /\ (call.op = "Construct" /\ Truthy(PyOr(call.args.api_key, env)))
           => (Len(call.sent) = 1 /\ call.sent[1].endpoint = "models.list")
    /\ \A i \in DOMAIN wire :
           wire[i].endpoint = "chat.completions.create"
               => \E j \in 1..(i - 1) :
                      wire[j].endpoint = "models.list" /\ wire[j].error = None

C10_Witness ==
    /\ Len(wire) = 2
    /\ wire[1].endpoint = "models.list"
    /\ wire[2].endpoint = "chat.completions.create"
====
